---- MODULE Spec2Model ----
(***************************************************************************)
(* State-machine model of the Huawei SUN2000 DeviceShifu driver            *)
(* (iot_driver_copilot/huawei_sun_2000_solar_inverter/driver.py).          *)
(*                                                                         *)
(* The driver is an asyncio program: every HTTP request is a coroutine,    *)
(* and coroutines interleave only at an await.  The awaits of the driver   *)
(* are the connect of a freshly created pymodbus client, the read/write    *)
(* round trip and the close.  Each action below is one run of a coroutine  *)
(* between two such points (or a finer, purely task-local piece of it).    *)
(***************************************************************************)
EXTENDS Integers, Sequences, FiniteSets, TLC

(* ------------------------------ bounds -------------------------------- *)
\* Requests handled concurrently by the event loop.
NumTasks == 2
\* pymodbus client objects that can exist at the same time.
MaxHandles == 3
\* Longest ?metrics= list of a telemetry request.
MaxNames == 2
\* Longest command list of a control request.
MaxCmds == 2
\* Longest run of failing wire attempts the device is scripted to give.
MaxFaults == 3
\* Calls of close() on one client object that are followed.
MaxCloses == 2
\* Most bytes of NUL and blank padding after the text of a string register
\* block.
MaxPad == 4

\* The retry count N of the specification (spec section 4.3: "up to N
\* attempts (configurable, default small constant)").  driver.py reads no
\* such setting (lines 13-18) and has no retry loop.
RetryCount == 3

Tasks == 1..NumTasks
Handles == 1..MaxHandles

(* ------------------------------ schema -------------------------------- *)
\* A descriptor; the scale 0.01 is kept as the denominator 100.
Desc(a, c, ty, den) == [address |-> a, count |-> c, type |-> ty, scaleDen |-> den]

TelemetryKeys ==
  << "active_power", "reactive_power", "voltage_L1", "voltage_L2",
     "voltage_L3", "current_L1", "current_L2", "current_L3",
     "power_factor", "frequency", "total_energy", "alarm_codes" >>

TELEMETRY_MAP ==
  ("active_power"   :> Desc(32080, 2, "int32", 100)) @@
  ("reactive_power" :> Desc(32082, 2, "int32", 100)) @@
  ("voltage_L1"     :> Desc(32066, 2, "int32", 100)) @@
  ("voltage_L2"     :> Desc(32067, 2, "int32", 100)) @@
  ("voltage_L3"     :> Desc(32068, 2, "int32", 100)) @@
  ("current_L1"     :> Desc(32069, 2, "int32", 100)) @@
  ("current_L2"     :> Desc(32070, 2, "int32", 100)) @@
  ("current_L3"     :> Desc(32071, 2, "int32", 100)) @@
  ("power_factor"   :> Desc(32084, 2, "int32", 1000)) @@
  ("frequency"      :> Desc(32085, 2, "int32", 100)) @@
  ("total_energy"   :> Desc(32106, 2, "int32", 1)) @@
  ("alarm_codes"    :> Desc(32090, 2, "int32", 1))

DeviceKeys == << "model", "serial_number", "firmware_version", "rated_power" >>

DEVICE_MAP ==
  ("model"            :> Desc(30000, 10, "string", 1)) @@
  ("serial_number"    :> Desc(30015, 10, "string", 1)) @@
  ("firmware_version" :> Desc(30035, 6, "string", 1)) @@
  ("rated_power"      :> Desc(30073, 2, "int32", 1))

CONTROL_MAP ==
  ("active_power_limit"   :> Desc(42000, 2, "int32", 1)) @@
  ("reactive_power_limit" :> Desc(42002, 2, "int32", 1))

(* ------------------------------ values -------------------------------- *)
\* JSON values of a response body: null, a number (an exact fraction in
\* lowest terms) or a string (its byte codes).
Null == [kind |-> "null", num |-> 0, den |-> 1, str |-> << >>]
Str(s) == [kind |-> "str", num |-> 0, den |-> 1, str |-> s]

RECURSIVE Gcd(_, _)
Gcd(a, b) == IF b = 0 THEN a ELSE Gcd(b, a % b)

Num(n, d) ==
  LET g == Gcd(d, n % d)
  IN [kind |-> "num", num |-> n \div g, den |-> d \div g, str |-> << >>]

(* ------------------------------- codec -------------------------------- *)
\* The pattern read as a sign bit and a magnitude of 31 bits.
parse_int32_sign_magnitude(registers) ==
  IF Len(registers) < 2
    THEN Null
    ELSE LET hi == registers[1]
             lo == registers[2]
         IN Num(IF hi >= 32768 THEN - ((hi - 32768) * 65536 + lo)
                ELSE hi * 65536 + lo, 1)

\* struct.unpack(">i", struct.pack(">HH", r0, r1)): the first word is the
\* high half, the pattern is read as two's complement.
parse_int32_registers(registers) ==
  IF Len(registers) < 2
    THEN Null
    ELSE LET hi == registers[1]
             lo == registers[2]
         IN Num((IF hi >= 32768 THEN hi - 65536 ELSE hi) * 65536 + lo, 1)

\* The bytes of the words, high byte first.
RECURSIVE PackWords(_)
PackWords(registers) ==
  IF registers = << >>
    THEN << >>
    ELSE << Head(registers) \div 256, Head(registers) % 256 >>
           \o PackWords(Tail(registers))

\* decode("utf-8", errors="ignore") on the bytes the model uses: a byte
\* below 128 is its character, a byte of 128 or more that starts no valid
\* sequence is dropped.
DecodeIgnore(bytes) == SelectSeq(bytes, LAMBDA b : b < 128)

\* str.strip() whitespace among the characters below 128.
IsSpace(c) == c \in {9, 10, 11, 12, 13, 28, 29, 30, 31, 32}

RECURSIVE LStrip(_)
LStrip(s) == IF s # << >> /\ IsSpace(Head(s)) THEN LStrip(Tail(s)) ELSE s

RECURSIVE RStrip(_)
RStrip(s) ==
  IF s # << >> /\ IsSpace(s[Len(s)]) THEN RStrip(SubSeq(s, 1, Len(s) - 1)) ELSE s

\* The decode without .replace('\x00', '').
parse_string_keep_nul(registers) ==
  RStrip(LStrip(DecodeIgnore(PackWords(registers))))

\* raw.decode("utf-8", errors="ignore").replace('\x00', '').strip()
parse_string_registers(registers) ==
  LET raw == PackWords(registers)
      text == DecodeIgnore(raw)
      noNul == SelectSeq(text, LAMBDA c : c # 0)
  IN RStrip(LStrip(noNul))

\* int(value): a number is truncated, anything else raises.
IntOk(value) == value.kind = "int"

\* The two words the other way round: the low half first.
build_int32_low_first(value) ==
  << value.v % 65536, (value.v \div 65536) % 65536 >>

\* struct.pack(">i", v) split into two big-endian words.
build_int32_registers(value) ==
  << (value.v \div 65536) % 65536, value.v % 65536 >>

\* round(x, 3) of the number n/d, d > 0: the nearest multiple of 1/1000,
\* ties to the even one, in lowest terms.  The JSON text of the float the
\* code computes is this decimal.
round(n, d) ==
  LET whole == n \div d
      m == (n % d) * 1000
      t == m \div d
      rest == m % d
      up == 2 * rest > d \/ (2 * rest = d /\ t % 2 = 1)
      milli == IF up THEN t + 1 ELSE t
      g == Gcd(1000, milli % 1000)
      den == 1000 \div g
      part == milli \div g
  IN [kind |-> "num",
      num |-> IF whole < 0 THEN (whole + 1) * den + (part - den)
              ELSE whole * den + part,
      den |-> den, str |-> << >>]

\* The value times the scale, rounded: an int32 times 1 stays that integer.
ScaledUnscaled(value, spec) == value

\* if value is not None: value = round(value * spec.get("scale", 1), 3)
Scaled(value, spec) ==
  IF value.kind = "null" THEN value ELSE round(value.num, spec.scaleDen)

(* ------------------------------ device -------------------------------- *)
\* The holding registers of the device: "SUN2000" and NULs at 30000,
\* "HV21 " at 30015, "V1" at 30035, 5000 at 30073, 1250 at 32080, -1 at
\* 32082, 0 elsewhere except 230 in the voltage words.
Mem(a) ==
  CASE a = 30000 -> 21333 [] a = 30001 -> 20018 [] a = 30002 -> 12336
    [] a = 30003 -> 12288
    [] a = 30015 -> 18518 [] a = 30016 -> 12849 [] a = 30017 -> 8192
    [] a = 30035 -> 22065
    [] a = 30074 -> 5000
    [] a = 32081 -> 1250
    [] a \in {32082, 32083} -> 65535
    [] a \in {32067, 32068} -> 230
    [] OTHER -> 0

DeviceRead(address, count) == [i \in 1..count |-> Mem(address + i - 1)]

(* ------------------------------ requests ------------------------------ *)
RECURSIVE SeqsUpTo(_, _)
SeqsUpTo(S, n) ==
  IF n = 0
    THEN {<< >>}
    ELSE LET shorter == SeqsUpTo(S, n - 1)
         IN shorter \cup {Append(s, x) : s \in {q \in shorter : Len(q) = n - 1}, x \in S}

\* Names a caller may put in ?metrics=: two schema fields and one unknown.
MetricNames == {"active_power", "total_energy", "bogus_field"}
MetricLists == SeqsUpTo(MetricNames, MaxNames)

\* The "value" of a command: an integer, or something int() rejects.
IntVal(v) == [kind |-> "int", v |-> v]
BadVal == [kind |-> "str", v |-> 0]
Cmd(n, v) == [name |-> n, value |-> v]
Commands ==
  { Cmd("active_power_limit", IntVal(5000)), Cmd("reactive_power_limit", IntVal(-1)),
    Cmd("rated_power", IntVal(5000)), Cmd("bogus_field", IntVal(5000)),
    Cmd("active_power_limit", BadVal) }
CommandLists == SeqsUpTo(Commands, MaxCmds)

\* Addresses at which the device may answer with one word too few.
ShortAddrs == {32080, 30073}

(* ------------------------------- state -------------------------------- *)
VARIABLES
  phase,   \* "init", "starting", "running", "stopped", "failed": the app's life
  client,  \* modbus_client.client: 0 is None, else a handle
  hs,      \* per handle: "unused", "fresh", "live", "down" or "closed"
  closes,  \* per handle: calls of its close()
  tk       \* per task: the request it is handling

vars == << phase, client, hs, closes, tk >>

NoOp == [kind |-> "none", address |-> 0, count |-> 0, values |-> << >>]
ReadOp(a, c) == [kind |-> "read", address |-> a, count |-> c, values |-> << >>]
WriteOp(a, v) == [kind |-> "write", address |-> a, count |-> Len(v), values |-> v]

Idle ==
  [ pc |-> "idle", handler |-> "none", req |-> << >>, items |-> << >>, idx |-> 0,
    result |-> << >>, op |-> NoOp, h |-> 0, planned |-> 0, attempts |-> 0,
    reconn |-> FALSE, wire |-> << >>, conn |-> 0, errs |-> << >>, status |-> 0,
    detail |-> "", applied |-> << >> ]

Init ==
  /\ phase = "init"
  /\ client = 0
  /\ hs = [h \in Handles |-> "unused"]
  /\ closes = [h \in Handles |-> 0]
  /\ tk = [t \in Tasks |-> Idle]

(* ----------------------------- transport ------------------------------ *)
\* A handle no reference reaches any more can be reused for a new object.
Referenced(h) == client = h \/ \E t \in Tasks : tk[t].h = h
FreeHandles ==
  {h \in Handles : hs[h] = "unused" \/ (hs[h] \in {"down", "closed"} /\ ~Referenced(h))}
NewHandle == CHOOSE h \in FreeHandles : \A g \in FreeHandles : h <= g

\* self.client.connected
Connected == client # 0 /\ hs[client] = "live"

\* connect() up to its await: a new client object replaces self.client; the
\* old one is neither closed nor kept.
ConnectCreate ==
  /\ FreeHandles # {}
  /\ client' = NewHandle
  /\ hs' = [hs EXCEPT ![NewHandle] = "fresh"]
  /\ closes' = [closes EXCEPT ![NewHandle] = 0]

\* A write that is always the multi-register request.
WireKindAlwaysMulti(op) ==
  IF op.kind = "read" THEN "read_holding_registers" ELSE "write_registers"

\* The pymodbus call a transport operation makes.
WireKind(op) ==
  IF op.kind = "read" THEN "read_holding_registers"
  ELSE IF op.count = 1 THEN "write_register" ELSE "write_registers"

\* self.client.<request>(...): the request is made on whatever object
\* self.client is now, connected or not, straight or after a connect().
Issued(r, hsNow) ==
  [r EXCEPT !.pc = "awaiting", !.h = client, !.attempts = @ + 1,
            !.wire = Append(@, [kind |-> WireKind(r.op), address |-> r.op.address,
                                 count |-> r.op.count, values |-> r.op.values,
                                 live |-> hsNow[client] = "live"])]

\* The transport call without "if self.client is None or not
\* self.client.connected: await self.connect()".
TransportCallNoReconnect(t, r, op, k) ==
  /\ tk' = [tk EXCEPT ![t] = Issued([r EXCEPT !.op = op, !.planned = k,
                                               !.attempts = 0], hs)]
  /\ UNCHANGED << client, hs, closes >>

\* read_holding_registers / write_registers up to the first await.
TransportCall(t, r, op, k) ==
  LET r1 == [r EXCEPT !.op = op, !.planned = k, !.attempts = 0]
  IN IF ~Connected
       THEN /\ ConnectCreate
            /\ tk' = [tk EXCEPT ![t] = [r1 EXCEPT !.pc = "connecting", !.reconn = TRUE,
                                                  !.h = NewHandle, !.conn = @ + 1]]
       ELSE /\ tk' = [tk EXCEPT ![t] = Issued(r1, hs)]
            /\ UNCHANGED << client, hs, closes >>

\* An except clause that swallows the error and goes on to the next item.
FailContinue(r, detail) == [r EXCEPT !.pc = "loop", !.idx = @ + 1, !.h = 0]

\* except Exception as e: raise HTTPException(500, detail=str(e)); the
\* results gathered so far are not part of the response.
Fail(r, detail) ==
  [r EXCEPT !.pc = "done", !.status = 500, !.detail = detail, !.result = << >>,
            !.h = 0]

(* ------------------------------ lifecycle ----------------------------- *)
\* startup_event up to the await inside connect().
startup_event ==
  /\ phase = "init"
  /\ ConnectCreate
  /\ phase' = "starting"
  /\ UNCHANGED tk

\* The await of connect() in startup_event returns: connected, not
\* connected, or with an exception (the application does not start).
startup_connected(outcome) ==
  /\ phase = "starting"
  /\ hs' = [hs EXCEPT ![client] = IF outcome = "live" THEN "live" ELSE "down"]
  /\ phase' = IF outcome = "raise" THEN "failed" ELSE "running"
  /\ UNCHANGED << client, closes, tk >>

\* close(): if self.client: await self.client.close().  self.client is not
\* reset, so every call reaches the client object.
close ==
  IF client # 0
    THEN /\ closes[client] < MaxCloses
         /\ hs' = [hs EXCEPT ![client] = "closed"]
         /\ closes' = [closes EXCEPT ![client] = @ + 1]
    ELSE UNCHANGED << hs, closes >>

\* shutdown_event, run once the requests in flight have been served; close()
\* may be called again on the stopped application.
shutdown_event ==
  /\ phase \in {"running", "stopped"}
  /\ \A t \in Tasks : tk[t].pc = "idle"
  /\ close
  /\ phase' = "stopped"
  /\ UNCHANGED << client, tk >>

\* The TCP session of a connected client object is lost.
Drop(h) ==
  /\ phase = "running"
  /\ hs[h] = "live"
  /\ hs' = [hs EXCEPT ![h] = "down"]
  /\ UNCHANGED << phase, client, closes, tk >>

(* ------------------------------ handlers ------------------------------ *)
Begin(t, r) ==
  /\ phase = "running"
  /\ tk[t].pc = "idle"
  /\ tk' = [tk EXCEPT ![t] = r]
  /\ UNCHANGED << phase, client, hs, closes >>

\* No request is being handled.
AllIdle == \A t \in Tasks : tk[t].pc = "idle"

\* GET /telemetry without the else branch: only listed names are read.
get_telemetry_listed_only(t, metrics) ==
  Begin(t, [Idle EXCEPT !.pc = "loop", !.handler = "telemetry", !.req = metrics,
                        !.items = metrics, !.idx = 1])

\* GET /telemetry: "if metrics:" picks the listed names, else every key.
get_telemetry(t, metrics) ==
  Begin(t, [Idle EXCEPT !.pc = "loop", !.handler = "telemetry", !.req = metrics,
                        !.items = IF metrics # << >> THEN metrics ELSE TelemetryKeys,
                        !.idx = 1])

\* GET /device: every key of DEVICE_MAP.
get_device(t) ==
  Begin(t, [Idle EXCEPT !.pc = "loop", !.handler = "device", !.items = DeviceKeys,
                        !.idx = 1])

\* PUT /control: the commands of the body, in order.
control_device(t, commands) ==
  Begin(t, [Idle EXCEPT !.pc = "loop", !.handler = "control", !.req = commands,
                        !.items = commands, !.idx = 1])

AtItem(t, handler) ==
  /\ tk[t].pc = "loop"
  /\ tk[t].handler = handler
  /\ tk[t].idx <= Len(tk[t].items)

\* The loop without "if m not in TELEMETRY_MAP: continue".
TelemetryWantedAll(r, m) == TRUE

\* if m not in TELEMETRY_MAP: continue  (only in the "if metrics:" branch)
TelemetryWanted(r, m) == r.req = << >> \/ m \in DOMAIN TELEMETRY_MAP

telemetry_skip(t) ==
  /\ AtItem(t, "telemetry")
  /\ ~TelemetryWanted(tk[t], tk[t].items[tk[t].idx])
  /\ tk' = [tk EXCEPT ![t].idx = @ + 1]
  /\ UNCHANGED << phase, client, hs, closes >>

\* spec = TELEMETRY_MAP[m] (a KeyError for a name that is no key), then
\* regs = await modbus_client.read_holding_registers(address, count), up to
\* its first await; k failing attempts are scripted for this read.
telemetry_read(t, k) ==
  /\ AtItem(t, "telemetry")
  /\ TelemetryWanted(tk[t], tk[t].items[tk[t].idx])
  /\ LET m == tk[t].items[tk[t].idx]
     IN IF m \in DOMAIN TELEMETRY_MAP
          THEN TransportCall(t, tk[t], ReadOp(TELEMETRY_MAP[m].address,
                                              TELEMETRY_MAP[m].count), k)
          ELSE /\ tk' = [tk EXCEPT ![t] = Fail(tk[t], "KeyError")]
               /\ UNCHANGED << client, hs, closes >>
  /\ UNCHANGED phase

device_read(t, k) ==
  /\ AtItem(t, "device")
  /\ LET spec == DEVICE_MAP[tk[t].items[tk[t].idx]]
     IN TransportCall(t, tk[t], ReadOp(spec.address, spec.count), k)
  /\ UNCHANGED phase

\* The membership test made against REGISTERS, the table of every register.
CommandKnownInRegisters(name) ==
  name \in DOMAIN CONTROL_MAP \cup DOMAIN DEVICE_MAP \cup DOMAIN TELEMETRY_MAP

\* if name not in CONTROL_MAP
CommandKnown(name) == name \in DOMAIN CONTROL_MAP

\* results.append({"name": name, "status": "error", ...}); continue
Rejected(r, name) ==
  [r EXCEPT !.result = Append(@, [name |-> name, status |-> "error"]), !.idx = @ + 1]

control_unknown(t) ==
  /\ AtItem(t, "control")
  /\ ~CommandKnown(tk[t].items[tk[t].idx].name)
  /\ tk' = [tk EXCEPT ![t] = Rejected(tk[t], tk[t].items[tk[t].idx].name)]
  /\ UNCHANGED << phase, client, hs, closes >>

\* spec = CONTROL_MAP[name] or build_int32_registers(value) raises.
control_invalid(t) ==
  /\ AtItem(t, "control")
  /\ LET c == tk[t].items[tk[t].idx]
     IN /\ CommandKnown(c.name)
        /\ c.name \notin DOMAIN CONTROL_MAP \/ ~IntOk(c.value)
        /\ tk' = [tk EXCEPT ![t] =
                    Fail(tk[t], IF c.name \notin DOMAIN CONTROL_MAP
                                  THEN "KeyError" ELSE "ValueError")]
  /\ UNCHANGED << phase, client, hs, closes >>

\* await modbus_client.write_registers(spec["address"], regs), up to its
\* first await.
control_write(t, k) ==
  /\ AtItem(t, "control")
  /\ LET c == tk[t].items[tk[t].idx]
     IN /\ CommandKnown(c.name)
        /\ c.name \in DOMAIN CONTROL_MAP
        /\ IntOk(c.value)
        /\ TransportCall(t, tk[t],
                         WriteOp(CONTROL_MAP[c.name].address,
                                 build_int32_registers(c.value)), k)
  /\ UNCHANGED phase

\* await self.client.connect() returns inside a transport call: connected,
\* not connected, or with an exception.  Unless it raised, the request is
\* issued next, on self.client as it is now.
connect_return(t, outcome) ==
  /\ tk[t].pc = "connecting"
  /\ hs' = [hs EXCEPT ![tk[t].h] = IF outcome = "live" THEN "live" ELSE "down"]
  /\ tk' = [tk EXCEPT ![t] = IF outcome = "raise"
                               THEN Fail(tk[t], "ConnectionException")
                               ELSE Issued(tk[t], hs')]
  /\ UNCHANGED << phase, client, closes >>

\* result[key] = value
Store(result, key, value) == (key :> value) @@ result

\* The value a handler makes of the registers of one field.
Decoded(r, regs) ==
  IF r.handler = "telemetry"
    THEN Scaled(parse_int32_registers(regs), TELEMETRY_MAP[r.items[r.idx]])
    ELSE LET spec == DEVICE_MAP[r.items[r.idx]]
         IN IF spec.type = "string" THEN Str(parse_string_registers(regs))
            ELSE parse_int32_registers(regs)

\* The round trip succeeded: a write has taken effect on the device (kept
\* for the record), and the caller goes on: a handler to its next item.
Succeeded(r, regs) ==
  [r EXCEPT !.pc = "loop", !.idx = @ + 1, !.op = NoOp, !.h = 0, !.planned = 0,
            !.attempts = 0, !.reconn = FALSE,
            !.applied = IF r.op.kind = "write"
                          THEN Append(@, [address |-> r.op.address,
                                          values |-> r.op.values])
                          ELSE @,
            !.result = IF r.handler = "control"
                         THEN Append(@, [name |-> r.items[r.idx].name, status |-> "ok"])
                         ELSE IF r.handler \in {"telemetry", "device"}
                                THEN Store(@, r.items[r.idx], Decoded(r, regs))
                                ELSE @]

\* The request was issued on a connected client whose session still stands.
Answerable(r) == r.wire[Len(r.wire)].live /\ hs[r.h] = "live"

\* The words the device returns: all of them, or one too few.
Answers(op) ==
  IF op.kind = "write" THEN {<< >>}
  ELSE {DeviceRead(op.address, op.count)}
         \cup (IF op.address \in ShortAddrs
                 THEN {DeviceRead(op.address, op.count - 1)} ELSE {})

\* The operation of item idx failed on the wire (kept for the record).
Erred(r) == [r EXCEPT !.errs = Append(@, r.idx)]

\* The awaited round trip ends: an exception of the library (no session), an
\* error response (resp.isError(), HTTPException 502) or the registers.
response(t) ==
  /\ tk[t].pc = "awaiting"
  /\ \/ /\ ~Answerable(tk[t])
        /\ tk' = [tk EXCEPT ![t] = Fail(Erred(tk[t]), "ModbusException")]
     \/ /\ Answerable(tk[t])
        /\ tk[t].planned > 0
        /\ tk' = [tk EXCEPT ![t] = Fail(Erred(tk[t]), "Modbus error response")]
     \/ /\ Answerable(tk[t])
        /\ tk[t].planned = 0
        /\ \E regs \in Answers(tk[t].op) :
             tk' = [tk EXCEPT ![t] = Succeeded(tk[t], regs)]
  /\ UNCHANGED << phase, client, hs, closes >>

\* return JSONResponse(result)
handler_return(t) ==
  /\ tk[t].pc = "loop"
  /\ tk[t].idx > Len(tk[t].items)
  /\ tk' = [tk EXCEPT ![t].pc = "done", ![t].status = 200]
  /\ UNCHANGED << phase, client, hs, closes >>

\* The response is sent; the task is free for the next request.
reply(t) ==
  /\ tk[t].pc = "done"
  /\ tk' = [tk EXCEPT ![t] = Idle]
  /\ UNCHANGED << phase, client, hs, closes >>

(* ---------------------------- direct calls ---------------------------- *)
\* The bits of struct's "i" format.
Int32Bits == 32

RECURSIVE Pow2(_)
Pow2(k) == IF k = 0 THEN 1 ELSE 2 * Pow2(k - 1)

MinInt32 == (- Pow2(Int32Bits - 2)) - Pow2(Int32Bits - 2)
MaxInt32 == (Pow2(Int32Bits - 2) - 1) + Pow2(Int32Bits - 2)

\* int32 values a caller passes: both ends of the range, the powers of two
\* and their neighbours in both signs, and a few readings.
Int32Samples ==
  {MinInt32, MaxInt32, 1250, 5000, -70000}
    \cup {s * (Pow2(k) + d) : s \in {-1, 1}, k \in 0..(Int32Bits - 2), d \in {-1, 0, 1}}

\* Register words a device returns, around the byte and the sign boundaries.
WordSamples == {0, 1, 255, 256, 1250, 32767, 32768, 32769, 61072, 65534, 65535}
WordPairs == {<< hi, lo >> : hi \in WordSamples, lo \in WordSamples}

\* ASCII texts (character codes): "", "A", "A B", "HV21", "SUN2000".
Texts ==
  { << >>, << 65 >>, << 65, 32, 66 >>, << 72, 86, 50, 49 >>,
    << 83, 85, 78, 50, 48, 48, 48 >> }
\* Whitespace before the text, NULs and blanks after it.
Leads == { << >>, << 32 >>, << 9, 32 >> }
Pads == SeqsUpTo({0, 32}, MaxPad)

\* The register words of an even number of bytes, high byte first.
RECURSIVE WordsOf(_)
WordsOf(bytes) ==
  IF bytes = << >>
    THEN << >>
    ELSE << bytes[1] * 256 + bytes[2] >> \o WordsOf(SubSeq(bytes, 3, Len(bytes)))

\* Register blocks of a string field: lead, text and padding that fill whole
\* words.
StringCases ==
  {c \in Leads \X Texts \X Pads : (Len(c[1]) + Len(c[2]) + Len(c[3])) % 2 = 0}

\* Value lists and the address of direct write_registers calls.
WriteSamples == { << >>, << 7 >>, << 0, 5000 >>, << 1, 2, 3 >> }
WriteAddrs == {42000}

\* A function of the module has been called with args (made from the
\* pieces `made`) and has returned out.
Called(fn, args, made, out) ==
  [Idle EXCEPT !.pc = "done", !.handler = fn, !.req = args, !.items = made,
               !.result = << out >>, !.status = 200]

\* build_int32_registers(v) for an int32 v.
call_build_int32_registers(t) ==
  /\ AllIdle
  /\ \E v \in Int32Samples :
       Begin(t, Called("build_int32_registers", << IntVal(v) >>, << >>,
                       build_int32_registers(IntVal(v))))

\* parse_int32_registers on the words build_int32_registers has returned.
call_parse_built(t) ==
  /\ tk[t].pc = "done"
  /\ tk[t].handler = "build_int32_registers"
  /\ tk' = [tk EXCEPT ![t].handler = "round_trip",
                       ![t].items = tk[t].result[1],
                       ![t].result = << parse_int32_registers(tk[t].result[1]) >>]
  /\ UNCHANGED << phase, client, hs, closes >>

\* parse_int32_registers([hi, lo]) for two register words.
call_parse_int32_registers(t) ==
  /\ AllIdle
  /\ \E regs \in WordPairs :
       Begin(t, Called("parse_int32_registers", regs, << >>,
                       parse_int32_registers(regs)))

\* parse_string_registers on the words of lead, text and padding.
call_parse_string_registers(t) ==
  /\ AllIdle
  /\ \E c \in StringCases :
       Begin(t, Called("parse_string_registers", WordsOf(c[1] \o c[2] \o c[3]), c,
                       parse_string_registers(WordsOf(c[1] \o c[2] \o c[3]))))

\* The value get_telemetry makes of the registers regs read for field m.
call_telemetry_value(t) ==
  /\ AllIdle
  /\ \E m \in DOMAIN TELEMETRY_MAP, regs \in WordPairs :
       Begin(t, Called("telemetry_value", << m, regs >>, << >>,
                       Decoded([Idle EXCEPT !.handler = "telemetry",
                                            !.items = << m >>, !.idx = 1], regs)))

\* modbus_client.write_registers(address, values), up to its first await;
\* k failing attempts are scripted for it.
call_write_registers(t) ==
  /\ phase = "running"
  /\ AllIdle
  /\ \E address \in WriteAddrs, values \in WriteSamples, k \in 0..MaxFaults :
       TransportCall(t, [Idle EXCEPT !.handler = "write_registers",
                                     !.req = << address, values >>],
                     WriteOp(address, values), k)
  /\ UNCHANGED phase

(* ---------------------------- specification --------------------------- *)
Outcomes == {"live", "down", "raise"}

\* The application starts, stops and loses sessions.
Lifecycle ==
  \/ startup_event
  \/ \E o \in Outcomes : startup_connected(o)
  \/ shutdown_event
  \/ \E h \in Handles : Drop(h)

\* The steps of the request task t is handling, but for the reads of
\* get_device; K are the fault scripts.
Steps(t, K) ==
  \/ telemetry_skip(t)
  \/ \E k \in K : telemetry_read(t, k)
  \/ control_unknown(t)
  \/ control_invalid(t)
  \/ \E k \in K : control_write(t, k)
  \/ \E o \in Outcomes : connect_return(t, o)
  \/ response(t)
  \/ handler_return(t)
  \/ reply(t)

\* Requests served one at a time, over every request of the bounds.
Next ==
  \/ Lifecycle
  \/ \E t \in Tasks :
       \/ AllIdle /\ \E metrics \in MetricLists : get_telemetry(t, metrics)
       \/ AllIdle /\ get_device(t)
       \/ AllIdle /\ \E commands \in CommandLists : control_device(t, commands)
       \/ \E k \in 0..MaxFaults : device_read(t, k)
       \/ Steps(t, 0..MaxFaults)

Spec == Init /\ [][Next]_vars

\* Requests served concurrently, over a few telemetry and control requests.
ConcMetricLists == {<< "active_power" >>, << "bogus_field", "total_energy" >>}
ConcCommandLists ==
  { << Cmd("active_power_limit", IntVal(5000)) >>,
    << Cmd("rated_power", IntVal(5000)), Cmd("active_power_limit", BadVal) >> }
ConcFaults == {0, MaxFaults}

NextConc ==
  \/ Lifecycle
  \/ \E t \in Tasks :
       \/ \E metrics \in ConcMetricLists : get_telemetry(t, metrics)
       \/ \E commands \in ConcCommandLists : control_device(t, commands)
       \/ Steps(t, ConcFaults)

SpecConc == Init /\ [][NextConc]_vars

\* The functions and the transport called directly, one call at a time.
NextCalls ==
  \/ Lifecycle
  \/ \E t \in Tasks :
       \/ call_build_int32_registers(t)
       \/ call_parse_built(t)
       \/ call_parse_int32_registers(t)
       \/ call_parse_string_registers(t)
       \/ call_telemetry_value(t)
       \/ call_write_registers(t)
       \/ \E o \in Outcomes : connect_return(t, o)
       \/ response(t)
       \/ handler_return(t)
       \/ reply(t)

SpecCalls == Init /\ [][NextCalls]_vars

(* ------------------------------ properties ---------------------------- *)
\* The requests whose round trip is under way on a session.
OnWire == {t \in Tasks : tk[t].pc = "awaiting" /\ tk[t].wire[Len(tk[t].wire)].live}

\* A request has ended with the device's error response to its last read or
\* write.
EndedInDeviceError(t) ==
  tk[t].pc = "done" /\ tk[t].status = 500 /\ tk[t].detail = "Modbus error response"

\* C1: the wire round trips of concurrent read_holding_registers /
\* write_registers calls on the one ModbusTCPClient never overlap: no request
\* is issued while the response to another call's request is outstanding.
C1_RoundTripsNeverOverlap == Cardinality(OnWire) <= 1

\* C2: a logical read or write whose every wire attempt fails is attempted on
\* the wire exactly RetryCount times before it returns its error.
C2_ExhaustedAfterNAttempts ==
  \A t \in Tasks :
    EndedInDeviceError(t) /\ tk[t].planned >= RetryCount
      => tk[t].attempts = RetryCount

\* C3: a logical read whose first k-1 wire attempts fail and whose k-th
\* would succeed, 1 <= k <= RetryCount, returns the words and no error.
C3_SucceedsOnKthAttempt ==
  \A t \in Tasks :
    EndedInDeviceError(t) /\ tk[t].op.kind = "read" => tk[t].planned >= RetryCount

\* The handlers that read a batch of fields.
Reads(t) == tk[t].handler \in {"telemetry", "device"}

\* C4 as claimed: a transport read failure of one field does not fail the
\* batch: the call succeeds and every field read before it is in the result.
C4_FailedFieldDoesNotFailBatch ==
  \A t \in Tasks :
    Reads(t) /\ tk[t].pc = "done" /\ tk[t].errs # << >>
      => /\ tk[t].status = 200
         /\ \A i \in 1..(tk[t].errs[1] - 1) :
              TelemetryWanted(tk[t], tk[t].items[i])
                => tk[t].items[i] \in DOMAIN tk[t].result

\* C4 as amended: a transport read failure of one field fails the batch:
\* the handler stops at that field and the call ends with status 500 and
\* none of the values read before.
C4_FailedFieldFailsBatch ==
  \A t \in Tasks :
    Reads(t) /\ tk[t].errs # << >>
      => /\ tk[t].pc = "done"
         /\ tk[t].status = 500
         /\ tk[t].result = << >>
         /\ tk[t].errs = << tk[t].idx >>
         /\ Len(tk[t].wire) = Cardinality({i \in 1..tk[t].idx :
                                             TelemetryWanted(tk[t], tk[t].items[i])})

\* The second field of a telemetry request failed after the first was read.
C4_Witness ==
  \E t \in Tasks :
    /\ tk[t].handler = "telemetry" /\ tk[t].pc = "done" /\ tk[t].status = 500
    /\ tk[t].errs = << 2 >> /\ Len(tk[t].wire) = 2

\* Task t stands at a command whose name is no key of CONTROL_MAP.
AtUnknownCommand(t) ==
  /\ tk[t].pc = "loop" /\ tk[t].handler = "control"
  /\ tk[t].idx <= Len(tk[t].items)
  /\ tk[t].items[tk[t].idx].name \notin DOMAIN CONTROL_MAP

\* C5: a command whose name is unknown or not writable (rated_power) is
\* rejected with an error entry of its own, and handling it issues no wire
\* operation and no connect: the wire log, the connect count and the client
\* objects are unchanged by it.
C5_UnknownCommandNoWire ==
  [][\A t \in Tasks :
       AtUnknownCommand(t)
         => /\ tk'[t].wire = tk[t].wire
            /\ tk'[t].conn = tk[t].conn
            /\ tk'[t] # tk[t]
                 => /\ tk'[t] = [tk[t] EXCEPT
                                   !.idx = @ + 1,
                                   !.result = Append(@, [name |-> tk[t].items[tk[t].idx].name,
                                                         status |-> "error"])]
                    /\ << client, hs, closes >>' = << client, hs, closes >>]_vars

\* rated_power was rejected and the command after it was written.
C5_Witness ==
  \E t \in Tasks :
    /\ tk[t].handler = "control" /\ tk[t].pc = "done" /\ tk[t].status = 200
    /\ tk[t].result = << [name |-> "rated_power", status |-> "error"],
                         [name |-> "active_power_limit", status |-> "ok"] >>
    /\ Len(tk[t].wire) = 1

\* The places of the schema names in a list of requested names.
KnownAt(req) == {i \in DOMAIN req : req[i] \in DOMAIN TELEMETRY_MAP}

\* C6: for a non-empty list of requested names, a successful get_telemetry
\* result holds exactly the requested names of TELEMETRY_MAP; an unknown name
\* is not in the result, never fails the call and has no wire read.
C6_ExactlyKnownRequested ==
  \A t \in Tasks :
    tk[t].handler = "telemetry" /\ tk[t].req # << >>
      => LET r == tk[t]
         IN /\ r.pc = "done" /\ r.status = 200
                 => /\ DOMAIN r.result = {r.req[i] : i \in KnownAt(r.req)}
                    /\ Len(r.wire) = Cardinality(KnownAt(r.req))
            /\ \A i \in DOMAIN r.wire :
                 /\ r.wire[i].kind = "read_holding_registers"
                 /\ \E j \in KnownAt(r.req) :
                      j <= r.idx /\ r.wire[i].address = TELEMETRY_MAP[r.req[j]].address
            /\ r.pc = "done" /\ r.status = 500 => r.idx \in KnownAt(r.req)

\* An unknown name was asked first, a schema field after it.
C6_Witness ==
  \E t \in Tasks :
    /\ tk[t].handler = "telemetry" /\ tk[t].pc = "done" /\ tk[t].status = 200
    /\ tk[t].req = << "bogus_field", "active_power" >>
    /\ DOMAIN tk[t].result = {"active_power"}

C8_AtMostOneLiveHandle == Cardinality({h \in Handles : hs[h] = "live"}) <= 1

\* C9: close() closes the client object once: a later close() without a
\* reconnect in between does not reach it again.
C9_ClosedOnce == \A h \in Handles : closes[h] <= 1

\* C10: no field of a successful read response carries null in place of a
\* reading.
C10_NoNullInSuccess ==
  \A t \in Tasks :
    Reads(t) /\ tk[t].pc = "done" /\ tk[t].status = 200
      => \A n \in DOMAIN tk[t].result : tk[t].result[n].kind # "null"

\* A register word: an integer of 16 bits without sign.
IsWord(w) == w \in 0..65535

\* C11: for every int32 v, build_int32_registers(v) is exactly two words,
\* each in 0..65535, and parse_int32_registers of these two words is v again.
C11_Int32RoundTrip ==
  \A t \in Tasks :
    /\ tk[t].handler = "build_int32_registers"
         => /\ Len(tk[t].result[1]) = 2
            /\ \A i \in 1..2 : IsWord(tk[t].result[1][i])
    /\ tk[t].handler = "round_trip"
         => /\ Len(tk[t].items) = 2
            /\ \A i \in 1..2 : IsWord(tk[t].items[i])
            /\ tk[t].result[1].kind = "num"
            /\ tk[t].result[1].den = 1
            /\ tk[t].result[1].num = tk[t].req[1].v

\* -70000 went through both functions, by way of the words 65534, 61072.
C11_Witness ==
  \E t \in Tasks :
    /\ tk[t].handler = "round_trip" /\ tk[t].req[1].v = -70000
    /\ tk[t].items = << 65534, 61072 >>
    /\ tk[t].result[1].num = -70000

\* C12: a call write_registers(address, values) issues one wire write and
\* no second one: the single-register write when values has one element,
\* else the multi-register write, at the address and with all the values in
\* their order.  The write is issued once the call is past its connect; a
\* call whose connect raised has issued none.
C12_OneWriteOfTheRightKind ==
  \A t \in Tasks :
    tk[t].handler = "write_registers"
      => LET r == tk[t]
             address == r.req[1]
             values == r.req[2]
         IN /\ Len(r.wire) <= 1
            /\ Len(r.wire) = 0
                 <=> \/ r.pc = "connecting"
                     \/ r.pc = "done" /\ r.detail = "ConnectionException"
            /\ \A i \in DOMAIN r.wire :
                 /\ r.wire[i].kind = IF Len(values) = 1 THEN "write_register"
                                     ELSE "write_registers"
                 /\ r.wire[i].address = address
                 /\ r.wire[i].values = values

\* A call with one value has returned after its single-register write.
C12_Witness ==
  \E t \in Tasks :
    /\ tk[t].handler = "write_registers" /\ tk[t].pc = "done"
    /\ tk[t].status = 200 /\ Len(tk[t].req[2]) = 1
    /\ Len(tk[t].wire) = 1 /\ tk[t].wire[1].kind = "write_register"
    /\ tk[t].applied = << [address |-> tk[t].req[1], values |-> tk[t].req[2]] >>

\* C13: when the list of requested names is absent or empty, get_telemetry
\* reads every field of TELEMETRY_MAP once, in the order of the schema, and
\* its successful result has exactly one entry per key of TELEMETRY_MAP.
C13_AllFieldsInSchemaOrder ==
  \A t \in Tasks :
    tk[t].handler = "telemetry" /\ tk[t].req = << >>
      => LET r == tk[t]
         IN /\ Len(r.wire) <= Len(TelemetryKeys)
            /\ \A i \in DOMAIN r.wire :
                 /\ r.wire[i].kind = "read_holding_registers"
                 /\ r.wire[i].address = TELEMETRY_MAP[TelemetryKeys[i]].address
                 /\ r.wire[i].count = TELEMETRY_MAP[TelemetryKeys[i]].count
            /\ r.pc = "done" /\ r.status = 200
                 => /\ DOMAIN r.result = DOMAIN TELEMETRY_MAP
                    /\ Len(r.wire) = Cardinality(DOMAIN TELEMETRY_MAP)

\* A request without names has returned all the fields.
C13_Witness ==
  \E t \in Tasks :
    /\ tk[t].handler = "telemetry" /\ tk[t].req = << >>
    /\ tk[t].pc = "done" /\ tk[t].status = 200
    /\ Cardinality(DOMAIN tk[t].result) = 12
    /\ tk[t].wire[1].address = 32080 /\ tk[t].wire[12].address = 32090

\* C14: for words hi, lo in 0..65535, parse_int32_registers([hi, lo]) is the
\* two's-complement reading of the pattern hi*65536 + lo: that number when
\* hi < 32768, that number less 2^32 otherwise (written here as the pattern
\* without its top bit, less 2^31); and for a negative v,
\* build_int32_registers(v) is the two words of v + 2^32 (the words of
\* v + 2^31 with the top bit set).
C14_TwosComplement ==
  \A t \in Tasks :
    /\ tk[t].handler = "parse_int32_registers"
         => LET hi == tk[t].req[1]
                lo == tk[t].req[2]
                out == tk[t].result[1]
            IN /\ out.kind = "num" /\ out.den = 1
               /\ hi < 32768 => out.num = hi * 65536 + lo
               /\ hi >= 32768 => out.num = ((hi - 32768) * 65536 + lo) + MinInt32
    /\ tk[t].handler = "build_int32_registers" /\ tk[t].req[1].v < 0
         => LET low31 == tk[t].req[1].v - MinInt32
            IN tk[t].result[1] = << low31 \div 65536 + 32768, low31 % 65536 >>

\* The pattern with only the top bit set was decoded to the least int32.
C14_Witness ==
  \E t \in Tasks :
    /\ tk[t].handler = "parse_int32_registers" /\ tk[t].req = << 32768, 0 >>
    /\ tk[t].result[1].num = MinInt32

\* C15: for the words of an ASCII text (no NUL in it, no whitespace at its
\* ends) with whitespace before it and any number of NUL bytes and blanks
\* after it, parse_string_registers returns exactly the text, however many
\* NUL words follow it.
C15_StringDecode ==
  \A t \in Tasks :
    tk[t].handler = "parse_string_registers"
      => LET text == tk[t].items[2]
         IN /\ tk[t].req = WordsOf(tk[t].items[1] \o text \o tk[t].items[3])
            /\ tk[t].result[1] = text

\* The words of "SUN2000\0\0\0" were decoded to "SUN2000".
C15_Witness ==
  \E t \in Tasks :
    /\ tk[t].handler = "parse_string_registers"
    /\ tk[t].req = << 21333, 20018, 12336, 12288, 0 >>
    /\ tk[t].result[1] = << 83, 85, 78, 50, 48, 48, 48 >>

\* C16: the value get_telemetry returns for a field is the decoded int32
\* times the scale of the field's descriptor, exactly: with the scale 1/den
\* (den 1, 100 or 1000), the value is the fraction raw/den.
C16_ScaledExactly ==
  \A t \in Tasks :
    tk[t].handler = "telemetry_value"
      => LET den == TELEMETRY_MAP[tk[t].req[1]].scaleDen
             raw == parse_int32_registers(tk[t].req[2]).num
             out == tk[t].result[1]
         IN /\ out.kind = "num"
            /\ den % out.den = 0
            /\ out.num * (den \div out.den) = raw

\* A raw 1250 of active_power (scale 0.01) came out as 12.5, that is 25/2.
C16_Witness ==
  \E t \in Tasks :
    /\ tk[t].handler = "telemetry_value"
    /\ tk[t].req = << "active_power", << 0, 1250 >> >>
    /\ tk[t].result[1].num = 25 /\ tk[t].result[1].den = 2

\* The places, among the first n commands, of those that get a write: the
\* name is a key of CONTROL_MAP and the value is an integer.
Writable(items, n) ==
  SelectSeq([i \in 1..n |-> i],
            LAMBDA i : items[i].name \in DOMAIN CONTROL_MAP /\ items[i].value.kind = "int")

\* The write of a command: its register address and the words of its value.
WriteOf(c) ==
  [address |-> CONTROL_MAP[c.name].address, values |-> build_int32_registers(c.value)]

\* C17: control_device takes the commands in list order and issues at most
\* one wire write per known command: the j-th write on the wire is that of
\* the j-th writable command.  Once a command has failed (its value is
\* invalid or its write meets a transport error) the call is over: no write
\* of a later command is issued, the writes of the commands before it have
\* taken effect and nothing undoes them, and the call ends with status 500
\* and no per-command results.
C17_OrderedAbortNoRollback ==
  \A t \in Tasks :
    tk[t].handler = "control"
      => LET r == tk[t]
             n == Len(r.items)
             before == Writable(r.items, r.idx - 1)
             upto == Writable(r.items, IF r.idx <= n THEN r.idx ELSE n)
             all == Writable(r.items, n)
         IN /\ Len(before) <= Len(r.wire) /\ Len(r.wire) <= Len(upto)
            /\ \A j \in DOMAIN r.wire :
                 /\ r.wire[j].kind = "write_registers"
                 /\ r.wire[j].address = WriteOf(r.items[all[j]]).address
                 /\ r.wire[j].values = WriteOf(r.items[all[j]]).values
            /\ r.applied = [j \in 1..Len(before) |-> WriteOf(r.items[before[j]])]
            /\ r.errs # << >> => r.pc = "done" /\ r.status = 500
            /\ \A i \in 1..(r.idx - 1) :
                 r.items[i].name \in DOMAIN CONTROL_MAP => r.items[i].value.kind = "int"
            /\ r.pc = "done" /\ r.status = 500
                 => /\ r.result = << >>
                    /\ r.idx <= n
                    /\ r.items[r.idx].name \in DOMAIN CONTROL_MAP
            /\ r.pc = "done" /\ r.status = 200
                 => /\ Len(r.result) = n
                    /\ Len(r.wire) = Len(all)

\* The first command was written, the second failed on the wire: the call
\* ended with the first write applied and without results.
C17_Witness ==
  \E t \in Tasks :
    /\ tk[t].handler = "control" /\ tk[t].pc = "done" /\ tk[t].status = 500
    /\ tk[t].idx = 2 /\ tk[t].errs = << 2 >>
    /\ Len(tk[t].wire) = 2 /\ Len(tk[t].applied) = 1
    /\ tk[t].result = << >>
====
